---- MODULE Spec2Model ----
(***************************************************************************)
(* Cache-consistency model of S3ParquetHandler (src/s3_dashboard_local.py).*)
(*                                                                         *)
(* One cache entry, the (bucket, key) main() reads from the environment:   *)
(*   remote  the object stored on S3 under (bucket, key), or no object     *)
(*   body    the file at local_path                                        *)
(*   meta    the file at local_path + ".meta"                               *)
(*   last    what the most recent operation did (a history record)         *)
(* download_from_s3 is one action; the S3 requests it makes can fail and   *)
(* the object can be replaced between its get_object and its head_object.  *)
(*                                                                         *)
(* Around it:                                                              *)
(*   pair, path  a (bucket, key) pair and the local path computed for it   *)
(*   df, pc      main(): its dataset variable and its position             *)
(*   decoded     how the decoding of main()'s latest read_parquet ended    *)
(* Spec is the handler called in any order; SpecFetch is Spec without the  *)
(* events that touch the sidecar from outside; SpecPath applies            *)
(* _get_local_cache_path to bounded names; SpecMain is the menu loop.      *)
(***************************************************************************)
EXTENDS Naturals, FiniteSets, Sequences

VARIABLES remote, body, meta, last, pair, path, df, pc, decoded

cacheVars == <<remote, body, meta, last>>
pathVars == <<pair, path>>
mainVars == <<df, pc, decoded>>
vars == <<remote, body, meta, last, pair, path, df, pc, decoded>>

\* Bounds of the model: distinct ETags, sizes and LastModified stamps.
MaxEtag == 2
MaxSize == 2
MaxTime == 2
\* Longest bucket name and key given to _get_local_cache_path.
MaxLen == 3

\* ---------------------------------------------------------------- values

\* Python None, a missing file, an unparseable .meta file, a truncated body.
None == [kind |-> "none"]
Absent == [kind |-> "absent"]
Corrupt == [kind |-> "corrupt"]
Partial == [kind |-> "partial"]
\* An exception propagating out of a function.
Raise == [kind |-> "raise"]

\* The dict _get_s3_file_metadata builds from a head_object response.
Descriptor ==
    [kind : {"meta"}, last_modified : 1..MaxTime, size : 1..MaxSize, etag : 1..MaxEtag]

\* The object on S3: present with a descriptor, or no such key.
Remote == Descriptor \cup {Absent}

\* Outcome of the network for one request.
Net == {"ok", "unavailable"}

\* The bytes get_object returns for an object: they fix its size and ETag.
BytesOf(obj) == [kind |-> "bytes", size |-> obj.size, etag |-> obj.etag]

\* How a local file write can end: written, open() raised, write() raised midway.
WriteOutcome == {"ok", "fail_open", "fail_write"}

\* Characters of bucket names and keys: a letter and the path separator.
Chars == {"x", "/"}

\* The names of at most MaxLen characters.
Names == UNION {[1..n -> Chars] : n \in 1..MaxLen}

\* The (bucket_name, file_key) pairs.
Pairs == [bucket : Names, key : Names]

\* S3_BUCKET_NAME and S3_FILE_KEY of main().
MainPair == [bucket |-> <<"x">>, key |-> <<"x">>]

\* self.local_cache_dir.
CacheDir == <<"~">>

\* No path computed yet.
NoPath == <<>>

\* required_columns of read_parquet.
RequiredColumns ==
    {"<Ticker>", "<DTYYYYMMDD>", "<Open>", "<High>", "<Low>", "<Close>", "<Volume>"}

\* The column sets of the files read: all required columns, all but one of
\* them, none of them.
FileColumns ==
    {RequiredColumns} \cup {RequiredColumns \ {col} : col \in RequiredColumns} \cup {{}}

\* What pd.read_parquet finds in a downloaded file: a file it cannot read
\* (it raises), or a table with some columns.
DecodeOutcome ==
    {[readable |-> FALSE, columns |-> {}]} \cup [readable : {TRUE}, columns : FileColumns]

\* -------------------------------------------------------------- functions

\* str.replace('/', '_').
ReplaceSlash(name) ==
    [i \in 1..Len(name) |-> IF name[i] = "/" THEN "_" ELSE name[i]]

\* _get_local_cache_path: os.path.join(local_cache_dir, bucket_key).
GetLocalCachePath(bucket_name, file_key) ==
    LET safe_bucket == ReplaceSlash(bucket_name)
        safe_key == ReplaceSlash(file_key)
    IN CacheDir \o <<"/">> \o safe_bucket \o <<"_">> \o safe_key

\* The try block of read_parquet: pd.read_parquet raises, or the column
\* check raises ValueError, or the table is returned.
Decode(dec) ==
    IF ~dec.readable THEN "unreadable"
    ELSE IF \A col \in RequiredColumns : col \in dec.columns THEN "ok"
    ELSE "missing_columns"

\* How read_parquet ended: no decoding when download_from_s3 gave no path.
ReadOutcome(result, dec) ==
    IF result = "path" THEN Decode(dec) ELSE "skipped"

\* read_parquet after download_from_s3 returned: the table when a path came
\* back and the file decodes with the required columns, None otherwise.
ReadResult(result, dec) ==
    IF ReadOutcome(result, dec) = "ok" THEN "table" ELSE "none"

\* _get_s3_file_metadata: head_object, any exception becomes None.
GetS3FileMetadata(obj, net) ==
    IF net = "ok" /\ obj # Absent THEN obj ELSE None

\* get_object: the bytes, or an exception (NoSuchKey or a network error).
GetObject(obj, net) ==
    IF net # "ok" THEN "unavailable"
    ELSE IF obj = Absent THEN "notfound"
    ELSE "ok"

\* _load_metadata: None without a .meta file, json.load otherwise (it raises
\* on a file that is not JSON).
LoadMetadata(m) ==
    IF m = Absent THEN None
    ELSE IF m = Corrupt THEN Raise
    ELSE m

\* Variant: the negation of the comparison is lost.
MetaDiffersInverted(s3_meta, local_meta) ==
    s3_meta.etag = local_meta.etag /\ s3_meta.size = local_meta.size

\* Variant: the LastModified stamp takes part in the comparison.
MetaDiffersWithTime(s3_meta, local_meta) ==
    ~(s3_meta.etag = local_meta.etag /\ s3_meta.size = local_meta.size
      /\ s3_meta.last_modified = local_meta.last_modified)

\* The comparison at the end of _has_file_changed.
MetaDiffers(s3_meta, local_meta) ==
    ~(s3_meta.etag = local_meta.etag /\ s3_meta.size = local_meta.size)

\* Variant: a head_object that failed counts as "nothing changed".
HasFileChangedFailOpen(s3_meta, m) ==
    IF s3_meta = None THEN "same"
    ELSE LET local_meta == LoadMetadata(m) IN
         IF local_meta = Raise THEN "raise"
         ELSE IF local_meta = None THEN "changed"
         ELSE IF MetaDiffers(s3_meta, local_meta) THEN "changed"
         ELSE "same"

\* _has_file_changed on the head_object result and the .meta file.
HasFileChanged(s3_meta, m) ==
    IF s3_meta = None THEN "changed"
    ELSE LET local_meta == LoadMetadata(m) IN
         IF local_meta = Raise THEN "raise"
         ELSE IF local_meta = None THEN "changed"
         ELSE IF MetaDiffers(s3_meta, local_meta) THEN "changed"
         ELSE "same"

\* Variant: the cache check runs whenever the body file exists.
NeedsCheckIgnoringForce(force_download, b) ==
    b # Absent

\* The guard of the cache check in download_from_s3.
NeedsCheck(force_download, b) ==
    ~force_download /\ b # Absent

\* open(local_path, 'wb') and f.write(file_content).
WriteBody(b, content, w) ==
    IF w = "ok" THEN content
    ELSE IF w = "fail_open" THEN b
    ELSE Partial

\* Variant: an existing .meta file is never overwritten.
SaveMetadataKeepExisting(m, metadata, w) ==
    IF w = "ok" THEN (IF m = Absent THEN metadata ELSE m)
    ELSE IF w = "fail_open" THEN m
    ELSE Corrupt

\* _save_metadata: open(meta_path, 'w') and json.dump.
SaveMetadata(m, metadata, w) ==
    IF w = "ok" THEN metadata
    ELSE IF w = "fail_open" THEN m
    ELSE Corrupt

\* Variant: the except branch leaves local_path alone.
ExceptHandlerKeeps(b) ==
    b

\* Variant: the except branch removes only a file this call left truncated.
ExceptHandlerOnlyPartial(b) ==
    IF b = Partial THEN Absent ELSE b

\* The except branch of download_from_s3: remove local_path when it exists.
ExceptHandler(b) ==
    IF b # Absent THEN Absent ELSE b

\* ------------------------------------------------------------ history

\* Two descriptors agree on size and ETag.
SameObject(a, b) == a.size = b.size /\ a.etag = b.etag

\* How the previous operation relates to this call: "cold_ok" when it was a
\* download_from_s3 call that found no body file, had every S3 request it
\* made answered, and wrote both files; "cold_wfail" when it was such a call
\* in which a local write failed; "other" otherwise.
PrevKind ==
    IF last.op = "fetch" /\ ~last.hadBody /\ last.get = "ok"
       /\ last.head2 # "fail"
    THEN IF last.write = "ok" /\ last.save = "ok" THEN "cold_ok" ELSE "cold_wfail"
    ELSE "other"

\* The record of an operation: what it found (hadBody .. timeEq), what each
\* step of the call did (head1 .. save), the requests it issued (gets,
\* heads), what it returned (result) and what it left (bodyKept .. replaced).
NoCall(op) ==
    [op |-> op, force |-> FALSE, prev |-> "other",
     hadBody |-> FALSE, hadMeta |-> "absent", hadObject |-> FALSE,
     synced |-> FALSE, etagEq |-> FALSE, sizeEq |-> FALSE, timeEq |-> FALSE,
     head1 |-> "skipped", check |-> "skipped", get |-> "skipped",
     write |-> "skipped", head2 |-> "skipped", save |-> "skipped",
     gets |-> 0, heads |-> 0, result |-> "none",
     bodyKept |-> TRUE, metaKept |-> TRUE, replaced |-> FALSE]

\* The record of a download_from_s3 call at its entry: hadBody, the body
\* file exists; hadMeta, the kind of the .meta file; hadObject, the object
\* exists on S3; synced, the .meta file describes the body file; etagEq,
\* sizeEq, timeEq, the object's and the .meta file's fields are equal.
Call(force_download) ==
    LET both == remote \in Descriptor /\ meta \in Descriptor IN
    [NoCall("fetch") EXCEPT
       !.force = force_download,
       !.prev = PrevKind,
       !.hadBody = (body # Absent),
       !.hadMeta = meta.kind,
       !.hadObject = (remote # Absent),
       !.synced = (body # Absent /\ meta \in Descriptor /\ body = BytesOf(meta)),
       !.etagEq = (both /\ remote.etag = meta.etag),
       !.sizeEq = (both /\ remote.size = meta.size),
       !.timeEq = (both /\ remote.last_modified = meta.last_modified)]

\* A return of download_from_s3 with the files and the object as they are.
Return(b, m, r, rec) ==
    /\ body' = b
    /\ meta' = m
    /\ remote' = r
    /\ last' = [rec EXCEPT !.bodyKept = (b = body), !.metaKept = (m = meta),
                           !.replaced = (r # remote)]

\* ------------------------------------------------------------ actions

\* The cache entry of main()'s pair, empty, and main() not started.
Init ==
    /\ remote \in Remote
    /\ body = Absent
    /\ meta = Absent
    /\ last = NoCall("init")
    /\ pair = MainPair
    /\ path = GetLocalCachePath(MainPair.bucket, MainPair.key)
    /\ df = "none"
    /\ pc = "start"
    /\ decoded = "never"

\* Variant: a get_object that failed is issued a second time before the
\* call gives up.
DownloadRetrying(rec) ==
    \E netGet \in Net :
      LET got == GetObject(remote, netGet) IN
      IF got # "ok"
      THEN Return(ExceptHandler(body), meta, remote,
                  [rec EXCEPT !.get = got, !.gets = rec.gets + 2, !.result = "none"])
      ELSE Return(BytesOf(remote), remote, remote,
                  [rec EXCEPT !.get = got, !.gets = rec.gets + 1, !.write = "ok",
                              !.heads = rec.heads + 1, !.head2 = "ok",
                              !.save = "ok", !.result = "path"])

\* Lines 131-150 of download_from_s3. rec is the call so far. get_object is
\* served from the object the call started with. Another writer may replace
\* the object before the head_object after the body write is answered:
\* objHead is the object then. The call sees a replacement only through
\* the descriptor it saves (or through a deleted object), so objHead ranges
\* over the replacements in those cases alone; RemoteChange covers the rest.
Download(rec) ==
    \E netGet \in Net :
      LET got == GetObject(remote, netGet)
          rec1 == [rec EXCEPT !.get = got, !.gets = rec.gets + 1]
      IN
      IF got # "ok"
      THEN Return(ExceptHandler(body), meta, remote, [rec1 EXCEPT !.result = "none"])
      ELSE \E w \in WriteOutcome :
        LET written == WriteBody(body, BytesOf(remote), w) IN
        IF w # "ok"
        THEN Return(ExceptHandler(written), meta, remote,
                    [rec1 EXCEPT !.write = "fail", !.result = "none"])
        ELSE \E netHead \in Net, sv \in WriteOutcome :
          \E objHead \in (IF netHead = "ok" /\ sv = "ok" THEN Remote ELSE {remote}) :
            LET s3_meta == GetS3FileMetadata(objHead, netHead)
                rec2 == [rec1 EXCEPT !.write = "ok", !.heads = rec.heads + 1,
                           !.head2 = IF s3_meta = None THEN "fail" ELSE "ok"]
            IN
            IF s3_meta = None
            THEN Return(written, meta, objHead, [rec2 EXCEPT !.result = "path"])
            ELSE LET saved == SaveMetadata(meta, s3_meta, sv) IN
              IF sv # "ok"
              THEN Return(ExceptHandler(written), saved, objHead,
                          [rec2 EXCEPT !.save = "fail", !.result = "none"])
              ELSE Return(written, saved, objHead,
                          [rec2 EXCEPT !.save = "ok", !.result = "path"])

\* The body of download_from_s3(bucket_name, file_key, force_download).
Fetch(force_download) ==
    LET rec == Call(force_download) IN
    IF NeedsCheck(force_download, body)
    THEN \E netHead \in Net :
      LET s3_meta == GetS3FileMetadata(remote, netHead)
          changed == HasFileChanged(s3_meta, meta)
          rec1 == [rec EXCEPT !.heads = 1, !.check = changed,
                     !.head1 = IF s3_meta = None THEN "fail" ELSE "ok"]
      IN
      IF changed = "raise"
      THEN Return(body, meta, remote, [rec1 EXCEPT !.result = "raise"])
      ELSE IF changed = "same"
      THEN Return(body, meta, remote, [rec1 EXCEPT !.result = "path"])
      ELSE Download(rec1)
    ELSE Download(rec)

\* A call of download_from_s3 with either value of force_download.
DownloadFromS3 ==
    /\ \E force_download \in BOOLEAN : Fetch(force_download)
    /\ UNCHANGED <<pathVars, mainVars>>

\* Another writer replaces or deletes the object on S3, or creates it.
RemoteChange ==
    /\ \E obj \in Remote : obj # remote /\ remote' = obj
    /\ last' = NoCall("remote")
    /\ UNCHANGED <<body, meta, pathVars, mainVars>>

\* The .meta file is deleted while the body file stays.
DeleteSidecar ==
    /\ body # Absent
    /\ meta # Absent
    /\ meta' = Absent
    /\ last' = NoCall("extern")
    /\ UNCHANGED <<remote, body, pathVars, mainVars>>

\* The .meta file is damaged (truncated, not JSON) while the body file stays.
CorruptSidecar ==
    /\ body # Absent
    /\ meta \notin {Absent, Corrupt}
    /\ meta' = Corrupt
    /\ last' = NoCall("extern")
    /\ UNCHANGED <<remote, body, pathVars, mainVars>>

Next ==
    \/ DownloadFromS3
    \/ RemoteChange
    \/ DeleteSidecar
    \/ CorruptSidecar

Spec == Init /\ [][Next]_vars

\* The handler and the object store alone: nothing else touches the files.
NextFetch ==
    \/ DownloadFromS3
    \/ RemoteChange

SpecFetch == Init /\ [][NextFetch]_vars

\* ---- _get_local_cache_path on bounded names

InitPath ==
    /\ remote = Absent
    /\ body = Absent
    /\ meta = Absent
    /\ last = NoCall("init")
    /\ pair \in Pairs
    /\ path = NoPath
    /\ df = "none"
    /\ pc = "start"
    /\ decoded = "never"

\* local_path = self._get_local_cache_path(bucket_name, file_key).
MapToLocalPath ==
    /\ path = NoPath
    /\ path' = GetLocalCachePath(pair.bucket, pair.key)
    /\ UNCHANGED <<pair, cacheVars, mainVars>>

\* The handler is given another (bucket_name, file_key).
PickPair ==
    /\ path # NoPath
    /\ \E q \in Pairs : q # pair /\ pair' = q
    /\ path' = NoPath
    /\ UNCHANGED <<cacheVars, mainVars>>

NextPath ==
    \/ MapToLocalPath
    \/ PickPair

SpecPath == InitPath /\ [][NextPath]_vars

\* ---- main()

\* Lines 235-243: the first read_parquet; main returns when it gives None.
MainLoad ==
    /\ pc = "start"
    /\ \E force_download \in BOOLEAN : Fetch(force_download)
    /\ \E dec \in DecodeOutcome :
         IF last'.result = "raise"
         THEN df' = df /\ pc' = "crashed" /\ decoded' = decoded
         ELSE /\ df' = ReadResult(last'.result, dec)
              /\ decoded' = ReadOutcome(last'.result, dec)
              /\ pc' = IF df' = "none" THEN "exit" ELSE "menu"
    /\ UNCHANGED pathVars

\* Menu options 1 and 2 (lines 258-279): filter_data and plot_candlestick
\* on df; they raise when df is None.
MenuChart ==
    /\ pc = "menu"
    /\ pc' = IF df = "none" THEN "crashed" ELSE "menu"
    /\ last' = NoCall("chart")
    /\ UNCHANGED <<remote, body, meta, df, decoded, pathVars>>

\* Menu option 3 (lines 281-293): _has_file_changed, then on a change
\* df = read_parquet(force_download=True).
MenuUpdate ==
    /\ pc = "menu"
    /\ \E netHead \in Net :
         LET changed == HasFileChanged(GetS3FileMetadata(remote, netHead), meta) IN
         IF changed = "changed"
         THEN /\ Fetch(TRUE)
              /\ \E dec \in DecodeOutcome :
                   /\ df' = ReadResult(last'.result, dec)
                   /\ decoded' = ReadOutcome(last'.result, dec)
              /\ pc' = "menu"
         ELSE /\ pc' = IF changed = "raise" THEN "crashed" ELSE "menu"
              /\ last' = NoCall("update")
              /\ UNCHANGED <<remote, body, meta, df, decoded>>
    /\ UNCHANGED pathVars

\* Menu option 4 (lines 295-297).
MenuExit ==
    /\ pc = "menu"
    /\ pc' = "exit"
    /\ last' = NoCall("exit")
    /\ UNCHANGED <<remote, body, meta, df, decoded, pathVars>>

NextMain ==
    \/ MainLoad
    \/ MenuChart
    \/ MenuUpdate
    \/ MenuExit
    \/ RemoteChange

SpecMain == Init /\ [][NextMain]_vars

TypeOK ==
    /\ remote \in Remote
    /\ body \in {Absent} \cup {BytesOf(d) : d \in Descriptor}
    /\ meta \in Descriptor \cup {Absent, Corrupt}
    /\ last.op \in {"init", "fetch", "remote", "extern", "chart", "update", "exit"}
    /\ last.gets \in 0..1
    /\ last.heads \in 0..2
    /\ pair \in Pairs
    /\ df \in {"none", "table"}
    /\ decoded \in {"never", "skipped", "ok", "unreadable", "missing_columns"}
    /\ pc \in {"start", "menu", "exit", "crashed"}

\* ------------------------------------------------------------ properties

\* The last operation was a download_from_s3 call that has returned.
Fetched == last.op = "fetch"

\* Every S3 request the last call made was answered.
AllAnswered ==
    /\ last.head1 # "fail"
    /\ last.get \in {"skipped", "ok"}
    /\ last.head2 # "fail"

\* The object on S3 was not replaced while the last call ran.
Unreplaced == ~last.replaced

\* At the start of the last call the object existed and its size and ETag
\* were those of a well-formed sidecar.
ObjectMatched == last.hadObject /\ last.hadMeta = "meta" /\ last.etagEq /\ last.sizeEq

\* At the start of the last call the object existed and its size or ETag
\* differed from those of a well-formed sidecar.
ObjectDiffered ==
    last.hadObject /\ last.hadMeta = "meta" /\ ~(last.etagEq /\ last.sizeEq)

\* C1 (as stated): a call that finds no body file issues a get_object, and
\* the call right after a cold call whose S3 requests were all answered,
\* with the object unchanged and the S3 requests answered, is a cache hit:
\* no get_object, the local path returned.
C1_ColdFetchThenHit_Original ==
    /\ (Fetched /\ ~last.hadBody =>
          last.gets = 1 /\ last.get # "skipped")
    /\ (Fetched /\ ~last.force /\ last.prev \in {"cold_ok", "cold_wfail"}
          /\ AllAnswered /\ Unreplaced =>
          last.check = "same" /\ last.gets = 0 /\ last.result = "path")

\* C1 (amended): a call that finds no body file issues a get_object, and
\* when that call's S3 requests were answered and its body write and sidecar
\* write succeeded, the call right after it with force_download false, the
\* object unchanged and the S3 requests answered is a cache hit: no
\* get_object, the local path returned.
C1_ColdFetchThenHit ==
    /\ (Fetched /\ ~last.hadBody =>
          last.gets = 1 /\ last.get # "skipped")
    /\ (Fetched /\ ~last.force /\ last.prev = "cold_ok"
          /\ AllAnswered /\ Unreplaced =>
          last.check = "same" /\ last.gets = 0 /\ last.result = "path")

C1_Witness ==
    /\ Fetched /\ ~last.force /\ last.prev = "cold_ok"
    /\ last.check = "same" /\ last.gets = 0 /\ last.result = "path"
    /\ body # Absent

\* C2: with the entry in sync and the object's size and ETag equal to the
\* sidecar's, a call with force_download false issues no get_object, at
\* most one head_object, and returns the path of the unchanged cached body.
C2_UnchangedNoDownload ==
    Fetched /\ ~last.force /\ last.synced /\ ObjectMatched /\ Unreplaced =>
      /\ last.gets = 0
      /\ last.heads <= 1
      /\ last.result = "path"
      /\ last.bodyKept

\* C3 (as stated): when the object's size or ETag differs from the sidecar
\* of a synced entry, the next call with force_download false issues exactly
\* one get_object and afterwards the sidecar's size and ETag are those
\* of the object (which is not replaced again during the call).
C3_ChangedRefreshes_Original ==
    Fetched /\ ~last.force /\ last.synced /\ ObjectDiffered /\ Unreplaced =>
      /\ last.gets = 1
      /\ meta \in Descriptor
      /\ SameObject(meta, remote)

\* C3 (amended): when the object's size or ETag differs from the sidecar of
\* a synced entry, the next call with force_download false issues exactly
\* one get_object, and when the get_object, the body write, the head_object
\* after it and the sidecar write all succeed, the sidecar's size and ETag
\* are those of the object (which is not replaced again during the call).
C3_ChangedRefreshes ==
    Fetched /\ ~last.force /\ last.synced /\ ObjectDiffered /\ Unreplaced =>
      /\ last.gets = 1
      /\ (last.save = "ok" =>
            /\ meta \in Descriptor
            /\ SameObject(meta, remote))

C3_Witness ==
    /\ Fetched /\ ~last.force /\ last.synced /\ ObjectDiffered /\ Unreplaced
    /\ last.gets = 1
    /\ last.save = "ok"
    /\ ~last.metaKept
    /\ SameObject(meta, remote)

\* C4: every call with force_download true issues a get_object, whatever
\* the body file and the sidecar are.
C4_ForceAlwaysDownloads ==
    Fetched /\ last.force => last.gets = 1 /\ last.get # "skipped"

C4_Witness ==
    /\ Fetched /\ last.force /\ last.synced /\ ObjectMatched
    /\ last.gets = 1

\* C5: when head_object answered, _has_file_changed says "changed" without
\* a sidecar, and with a well-formed sidecar says "same" exactly when both
\* the ETags and the sizes are equal, whatever the LastModified stamps are.
C5_StalenessDecision ==
    Fetched /\ last.head1 = "ok" /\ last.hadMeta # "corrupt" =>
      /\ (last.hadMeta = "absent" => last.check = "changed")
      /\ (last.hadMeta = "meta" =>
            (last.check = "same" <=> last.etagEq /\ last.sizeEq))

C5_Witness ==
    /\ Fetched /\ last.head1 = "ok" /\ last.hadMeta = "meta"
    /\ ~last.timeEq
    /\ last.check = "same"

\* C6: with the body file present and the sidecar deleted or not parseable,
\* a call with force_download false raises nothing and downloads the body
\* again.
C6_BadSidecarRedownloads ==
    Fetched /\ ~last.force /\ last.hadBody
      /\ last.hadMeta \in {"absent", "corrupt"} =>
        /\ last.result # "raise"
        /\ last.gets = 1

\* C7: when the head_object of the staleness check fails for an object that
\* exists and a body file is cached, the call returns the path of that
\* body, which is still on disk as it was (no local write fails).
C7_UnavailableServesStale ==
    Fetched /\ ~last.force /\ last.hadBody /\ last.head1 = "fail"
      /\ last.hadObject /\ Unreplaced
      /\ last.write # "fail" /\ last.save # "fail" =>
        /\ last.result = "path"
        /\ last.bodyKept
        /\ body # Absent

\* C8: a call that fails because get_object or the body write failed leaves
\* the body file and the sidecar as they were before the call.
C8_FailedDownloadRollsBack ==
    Fetched /\ last.result = "none"
      /\ (last.get = "unavailable" \/ last.write = "fail") =>
        /\ last.bodyKept
        /\ last.metaKept

\* C9: a call whose get_object finds no object fails and leaves the body
\* file and the sidecar as they were before the call.
C9_NotFoundLeavesEntry ==
    Fetched /\ last.get = "notfound" =>
      /\ last.result = "none"
      /\ last.bodyKept
      /\ last.metaKept

\* C10: the sidecar a call writes describes the object whose bytes the call
\* wrote to the body file.
C10_SidecarMatchesBody ==
    Fetched /\ last.save = "ok" =>
      /\ body # Absent
      /\ meta \in Descriptor
      /\ body = BytesOf(meta)

\* C11: when the body write succeeds and the sidecar write fails, the call
\* is not a failure: it still returns the local path and the body file it
\* wrote stays on disk (to be downloaded again by the next call).
C11_SidecarFailureNotFatal ==
    Fetched /\ last.write = "ok" /\ last.save = "fail" =>
      /\ last.result = "path"
      /\ body # Absent

\* C12: the local path computed for a (bucket, key) pair is the path of no
\* other pair, so pairs that differ in where the "/" falls never share a
\* cache entry.
C12_NoCollision ==
    path # NoPath =>
      \A q \in Pairs :
        q # pair => GetLocalCachePath(q.bucket, q.key) # path

\* C13: a call with force_download false takes the cache-hit path only
\* when the sidecar exists, is well formed and describes the bytes of the
\* body file.
C13_HitOnlyWhenPaired ==
    Fetched /\ ~last.force /\ last.check = "same" =>
      /\ last.hadMeta = "meta"
      /\ last.synced

\* C14: a call changes the sidecar only when its get_object and its body
\* write succeeded, and then to a whole record; a cache hit leaves the body
\* file and the sidecar unchanged; a call that fails leaves the sidecar
\* unchanged.
C14_SidecarWrittenOnlyOnSuccess ==
    Fetched =>
      /\ (~last.metaKept =>
            last.get = "ok" /\ last.write = "ok" /\ meta \in Descriptor)
      /\ (last.check = "same" => last.bodyKept /\ last.metaKept)
      /\ (last.result # "path" => last.metaKept)

\* C15: when the body write of a call fails, no file (whole or truncated)
\* is at the local path when the call returns, the call returns None, and
\* the call wrote no sidecar.
C15_BodyWriteFailureCleansUp ==
    Fetched /\ last.write = "fail" =>
      /\ body = Absent
      /\ last.result = "none"
      /\ last.save = "skipped"
      /\ last.metaKept

C15_Witness ==
    /\ Fetched /\ last.write = "fail" /\ last.hadBody
    /\ body = Absent /\ last.result = "none"

\* C16: a call with force_download false whose staleness head_object fails
\* never takes the cache-hit path: it goes on to get_object.
C16_HeadFailureNotUnchanged ==
    Fetched /\ ~last.force /\ last.head1 = "fail" =>
      /\ last.check = "changed"
      /\ last.gets = 1

C16_Witness ==
    /\ Fetched /\ ~last.force /\ last.head1 = "fail"
    /\ last.synced /\ ObjectMatched
    /\ last.check = "changed" /\ last.gets = 1

\* C17: one call issues at most one get_object, and a call whose
\* get_object, body write or sidecar write failed issues no request after
\* the failure and returns None.
C17_NoRetry ==
    Fetched =>
      /\ last.gets <= 1
      /\ (last.get \in {"unavailable", "notfound"} \/ last.write = "fail" =>
            /\ last.head2 = "skipped"
            /\ last.heads = (IF last.head1 = "skipped" THEN 0 ELSE 1)
            /\ last.result = "none")
      /\ (last.save = "fail" =>
            /\ last.gets = 1
            /\ last.heads = (IF last.head1 = "skipped" THEN 1 ELSE 2)
            /\ last.result = "none")

C17_Witness ==
    /\ Fetched /\ last.get = "unavailable" /\ last.head1 = "fail"
    /\ last.gets = 1 /\ last.heads = 1 /\ last.result = "none"

\* C18: when a call returns None, no body file is at the local path
\* afterwards, also when a body file described by its sidecar was cached
\* before the call.
C18_FailureEvictsBody ==
    Fetched /\ last.result = "none" => body = Absent

C18_Witness ==
    /\ Fetched /\ last.result = "none" /\ last.synced /\ ~last.bodyKept
    /\ body = Absent

\* C19: between calls, whatever requests and writes failed, and with nothing
\* but the handler touching the files, a sidecar exists only if the body
\* file exists.
C19_NoOrphanSidecar ==
    meta # Absent => body # Absent

\* C20: whenever main() is at its menu, where options 1 and 2 chart the
\* dataset, df holds a loaded table.
C20_DatasetNeverLost ==
    pc = "menu" => df = "table"

\* C21: a file lacking a required column gives no table, and main() runs no
\* filtering or plotting step (menu options 1 and 2) after its latest
\* read_parquet ended with the column check failing.
C21_SchemaMismatchSurfaced ==
    /\ (decoded = "missing_columns" => df = "none")
    /\ (last.op = "chart" => decoded # "missing_columns")

====
